---------------------------- MODULE Spec2Model ----------------------------
(***************************************************************************)
(* A model of L.A7DrawShape (src/src/leaflet.a7.drawshape.js): the shape   *)
(* editor's fields, the layers it keeps on the Leaflet map, the map's      *)
(* drag-panning toggle, the per-node drag closures, and one action per     *)
(* public method or event handler.                                         *)
(*                                                                         *)
(* Every handler is written as an operator from an editor record to the    *)
(* editor record it leaves behind, so that a handler calling another       *)
(* (startDrawing calls clear, a click calls _createNode and _updateShape)  *)
(* is the composition of the operators.  Distances are kept squared, as    *)
(* exact fractions [n, d]: Math.sqrt is monotone, so every comparison the  *)
(* code makes on distances is made here on their squares.                  *)
(***************************************************************************)
EXTENDS Integers, Sequences, FiniteSets, TLC

VARIABLES
    shape,        \* this.shape: Null, the node itself (point) or a primitive
    nodes,        \* this.nodes: sequence of [id, latlng]
    isDrawing,    \* this.isDrawing
    shapeType,    \* this.shapeType
    tempLine,     \* this.tempLine: Null or the preview polyline
    state,        \* this.state
    layers,       \* the layers currently on this.map
    mapDragging,  \* this.map.dragging.enabled()
    mapListeners, \* nodes whose onMouseMove/onMouseUp are registered on this.map
    isDragging,   \* nodes whose closure variable isDragging is true
    fired,        \* the notifications fired by the last operation, in order
    lastOp,       \* the last operation or event delivered
    result        \* what the last getGeoJSON/drawFromGeoJSON call returned or threw

vars == <<shape, nodes, isDrawing, shapeType, tempLine, state, layers,
          mapDragging, mapListeners, isDragging, fired, lastOp, result>>

---------------------------------------------------------------------------
(* Bounds of the model. *)

\* The registry is not grown more than MaxExtra nodes past the count at which the
\* type's shape is complete (see Cap).
MaxExtra == 1

\* At most MaxDrags drag gestures are pressed and not yet released at a time.
MaxDrags == 1

---------------------------------------------------------------------------
(* Program constants. *)

\* options.nodeRadius
nodeRadius == 6

\* options.autoPanSpeed
autoPanSpeed == 10

\* options.autoPanPadding
autoPanPadding == [x |-> 50, y |-> 50]

---------------------------------------------------------------------------
(* The Map Surface: coordinates and projection. *)

\* The geographic coordinates the pointer events and GeoJSON inputs use.  On the
\* screen PtP and PtQ are exactly 12 pixels apart, PtR is exactly 12 pixels from
\* the segment between them and more than 12 pixels from either.
PtP == [lat |-> 10, lng |-> 10]
PtQ == [lat |-> 10, lng |-> 20]
PtR == [lat |-> 20, lng |-> 15]
Points == {PtP, PtQ, PtR}

\* map.getSize()
MapSize == [x |-> 400, y |-> 300]

\* map.latLngToContainerPoint: a fixed view, 12 pixels per 10 degrees, rounded.
latLngToContainerPoint(ll) ==
    [x |-> 176 + ((ll.lng * 12) \div 10), y |-> 168 - ((ll.lat * 12) \div 10)]

\* map.containerPointToLatLng: the inverse projection of the same view.
containerPointToLatLng(cp) ==
    [lat |-> ((168 - cp.y) * 10) \div 12, lng |-> ((cp.x - 176) * 10) \div 12]

\* L.Point.distanceTo, squared.
distanceTo(p, q) ==
    [n |-> (p.x - q.x) * (p.x - q.x) + (p.y - q.y) * (p.y - q.y), d |-> 1]

\* dist1 < dist2 on squared distances kept as fractions: the whole parts are
\* compared first and the remainders cross-multiplied, which keeps the products
\* small.  A denominator of 0 is Infinity, which is less than nothing.
DistLess(d1, d2) ==
    IF d1.d = 0 THEN FALSE
    ELSE IF d2.d = 0 THEN TRUE
    ELSE IF d1.n \div d1.d # d2.n \div d2.d THEN d1.n \div d1.d < d2.n \div d2.d
    ELSE (d1.n % d1.d) * d2.d < (d2.n % d2.d) * d1.d

\* dist <= px on a squared distance kept as a fraction.
DistAtMost(dist, px) == dist.n <= px * px * dist.d

\* The value Infinity of minDist before the first segment is measured.
Infinity == [n |-> 1, d |-> 0]

\* _pointToLineDistance(p, a, b), squared.
_pointToLineDistance(p, a, b) ==
    LET A == p.x - a.x
        B == p.y - a.y
        C == b.x - a.x
        D == b.y - a.y
        dot == A * C + B * D
        len_sq == C * C + D * D
    IN  IF len_sq = 0 \/ dot < 0 THEN distanceTo(p, a)
        ELSE IF dot > len_sq THEN distanceTo(p, b)
        ELSE [n |-> (A * A + B * B) * len_sq - dot * dot, d |-> len_sq]

\* _autoPan(containerPoint): the vector handed to map.panBy ([0,0]: no pan).
_autoPan(containerPoint) ==
    LET x1 == IF containerPoint.x < autoPanPadding.x THEN -autoPanSpeed ELSE 0
        x2 == IF containerPoint.x > MapSize.x - autoPanPadding.x THEN autoPanSpeed ELSE x1
        y1 == IF containerPoint.y < autoPanPadding.y THEN -autoPanSpeed ELSE 0
        y2 == IF containerPoint.y > MapSize.y - autoPanPadding.y THEN autoPanSpeed ELSE y1
    IN  [x |-> x2, y |-> y2]

\* Pointer positions in the interior of the viewport, where _autoPan pans by nothing.
Interior == {p \in Points : _autoPan(latLngToContainerPoint(p)) = [x |-> 0, y |-> 0]}

---------------------------------------------------------------------------
(* Layers, nodes and notifications. *)

\* null
Null == [kind |-> "null", id |-> 0]

\* The circle marker of node id and its white background.
NodeLayer(id) == [kind |-> "node", id |-> id]
Background(id) == [kind |-> "halo", id |-> id]

PrimitiveKinds == {"polyline", "polygon", "rectangle", "circle"}

Range(seq) == {seq[i] : i \in 1..Len(seq)}
NodeIds(seq) == {seq[i].id : i \in 1..Len(seq)}

\* The smallest positive integer not in used: the identity of a new object.
Fresh(used) == CHOOSE i \in 1..(Cardinality(used) + 1) : i \notin used

\* The identity of the node the next _createNode constructs.
NewNodeId(s) ==
    Fresh(NodeIds(s.nodes) \cup s.mapListeners \cup s.isDragging
          \cup {l.id : l \in {k \in s.layers : k.kind \in {"node", "halo"}}}
          \cup (IF s.shape.kind = "node" THEN {s.shape.id} ELSE {}))

\* The identity of the next polyline, polygon, rectangle or circle constructed:
\* one no primitive on the map has.
NewPrimitiveId(s) ==
    Fresh({l.id : l \in {k \in s.layers : k.kind \notin {"node", "halo"}}})

Event(name, node, st) == [name |-> name, node |-> node, state |-> st]

\* this.fire(...)
fire(s, ev) == [s EXCEPT !.fired = Append(@, ev)]

\* map.removeLayer / layer.addTo(map)
removeLayer(s, l) == [s EXCEPT !.layers = @ \ {l}]
addTo(s, l) == [s EXCEPT !.layers = @ \cup {l}]

\* A GeoJSON geometry is [type, coordinates, radius]: radius 0 is a geometry with
\* no radius field.  NoGeometry stands for null, undefined and an object with no
\* type, which drawFromGeoJSON treats alike.
NoGeometry == [type |-> "", coordinates |-> <<>>, radius |-> 0]

\* What a call gave back: kind is "none" (nothing), "null", "undefined",
\* "TypeError" (thrown) or "geometry" with the value returned.
Returned(kind, value) == [kind |-> kind, value |-> value]
NoResult == Returned("none", NoGeometry)

\* The editor, the map and the closures as one record.
Self ==
    [shape |-> shape, nodes |-> nodes, isDrawing |-> isDrawing,
     shapeType |-> shapeType, tempLine |-> tempLine, state |-> state,
     layers |-> layers, mapDragging |-> mapDragging,
     mapListeners |-> mapListeners, isDragging |-> isDragging,
     fired |-> <<>>, result |-> NoResult]

\* Object identities are opaque, so they are renamed after every operation: the
\* node at position i of the registry is node i, and the nodes that have left the
\* registry but are still referred to (by a listener, a closure, the shape or a
\* notification) follow in the order of their old identities.
Referred(s) ==
    NodeIds(s.nodes) \cup s.mapListeners \cup s.isDragging
    \cup {l.id : l \in {k \in s.layers : k.kind \in {"node", "halo"}}}
    \cup (IF s.shape.kind = "node" THEN {s.shape.id} ELSE {})
    \cup ({s.fired[i].node : i \in 1..Len(s.fired)} \ {0})

Renaming(s) ==
    LET inside == NodeIds(s.nodes)
        left == Referred(s) \ inside
    IN  [id \in inside |-> CHOOSE i \in 1..Len(s.nodes) : s.nodes[i].id = id]
        @@ [id \in left |-> Len(s.nodes) + Cardinality({j \in left : j <= id})]
        @@ (0 :> 0)

Renamed(s) ==
    \* Identities already in place (the common case) need no renaming.
    IF /\ \A i \in 1..Len(s.nodes) : s.nodes[i].id = i
       /\ Referred(s) \subseteq 1..Cardinality(Referred(s))
    THEN s
    ELSE LET r == Renaming(s)
             Layer(l) == IF l.kind \in {"node", "halo"} THEN [l EXCEPT !.id = r[@]] ELSE l
         IN  [s EXCEPT !.nodes = [i \in 1..Len(@) |-> [@[i] EXCEPT !.id = r[@]]],
                       !.layers = {Layer(l) : l \in @},
                       !.shape = Layer(@),
                       !.mapListeners = {r[i] : i \in @},
                       !.isDragging = {r[i] : i \in @},
                       !.fired = [i \in 1..Len(@) |-> [@[i] EXCEPT !.node = r[@]]]]

\* The operation op leaves the record s behind.
Becomes(s, op) ==
    \E t \in {Renamed(s)} :
        /\ shape' = t.shape
        /\ nodes' = t.nodes
        /\ isDrawing' = t.isDrawing
        /\ shapeType' = t.shapeType
        /\ tempLine' = t.tempLine
        /\ state' = t.state
        /\ layers' = t.layers
        /\ mapDragging' = t.mapDragging
        /\ mapListeners' = t.mapListeners
        /\ isDragging' = t.isDragging
        /\ fired' = t.fired
        /\ result' = t.result
        /\ lastOp' = op

---------------------------------------------------------------------------
(* clear and startDrawing. *)

\* clear() that leaves the white backgrounds of the nodes on the map.
clearKeepsBackgrounds(s) ==
    LET s1 == IF s.shape # Null THEN removeLayer(s, s.shape) ELSE s
        s2 == IF s1.tempLine # Null
              THEN [removeLayer(s1, s1.tempLine) EXCEPT !.tempLine = Null]
              ELSE s1
        s3 == [s2 EXCEPT !.layers = @ \ {NodeLayer(id) : id \in NodeIds(s2.nodes)}]
        s4 == [s3 EXCEPT !.shape = Null, !.nodes = <<>>,
                         !.isDrawing = TRUE, !.state = "idle"]
    IN  fire(s4, Event("statechange", 0, "idle"))

\* clear()
clear(s) ==
    LET s1 == IF s.shape # Null THEN removeLayer(s, s.shape) ELSE s
        s2 == IF s1.tempLine # Null
              THEN [removeLayer(s1, s1.tempLine) EXCEPT !.tempLine = Null]
              ELSE s1
        s3 == [s2 EXCEPT !.layers =
                 @ \ UNION {{NodeLayer(id), Background(id)} : id \in NodeIds(s2.nodes)}]
        s4 == [s3 EXCEPT !.shape = Null, !.nodes = <<>>,
                         !.isDrawing = TRUE, !.state = "idle"]
    IN  fire(s4, Event("statechange", 0, "idle"))

\* startDrawing(type)
startDrawing(s, type) ==
    LET s1 == clear(s)
        s2 == [s1 EXCEPT !.shapeType = type, !.isDrawing = TRUE, !.state = "drawing"]
        s3 == fire(s2, Event("statechange", 0, "drawing"))
    IN  [s3 EXCEPT !.mapDragging = FALSE]

ShapeTypes == {"point", "line", "polygon", "rectangle", "circle"}

\* The largest registry the model lets a shape type grow to.
Cap(type) ==
    MaxExtra + (IF type = "point" THEN 1 ELSE IF type = "polygon" THEN 3 ELSE 2)

---------------------------------------------------------------------------
(* Nodes and the shape. *)

\* _createNode(latlng): the node it returns has the identity NewNodeId(s).
_createNode(s, latlng) ==
    LET id == NewNodeId(s)
        s1 == fire(s, Event("beforenodecreate", 0, ""))
        s2 == addTo(s1, Background(id))
    IN  addTo(s2, NodeLayer(id))

\* _updateShape() that leaves the previous shape on the map.
_updateShapeKeepsPrevious(s) ==
    LET first == IF Len(s.nodes) > 0 THEN NodeLayer(s.nodes[1].id) ELSE Null
        n == Len(s.nodes)
        Built(kind) ==
            LET l == [kind |-> kind, id |-> NewPrimitiveId(s)]
            IN  [addTo(s, l) EXCEPT !.shape = l]
    IN  IF s.shapeType = "point" /\ n = 1 THEN [s EXCEPT !.shape = first]
        ELSE IF s.shapeType = "line" /\ n >= 2 THEN Built("polyline")
        ELSE IF s.shapeType = "polygon" /\ n >= 3 THEN Built("polygon")
        ELSE IF s.shapeType = "rectangle" /\ n >= 2 THEN Built("rectangle")
        ELSE IF s.shapeType = "circle" /\ n >= 2 THEN Built("circle")
        ELSE s

\* _updateShape()
_updateShape(s) ==
    LET first == IF Len(s.nodes) > 0 THEN NodeLayer(s.nodes[1].id) ELSE Null
        s1 == IF s.shape # Null /\ s.shape # first THEN removeLayer(s, s.shape) ELSE s
        n == Len(s1.nodes)
        Built(kind) ==
            LET l == [kind |-> kind, id |-> NewPrimitiveId(s1)]
            IN  [addTo(s1, l) EXCEPT !.shape = l]
    IN  IF s1.shapeType = "point" /\ n = 1 THEN [s1 EXCEPT !.shape = first]
        ELSE IF s1.shapeType = "line" /\ n >= 2 THEN Built("polyline")
        ELSE IF s1.shapeType = "polygon" /\ n >= 3 THEN Built("polygon")
        ELSE IF s1.shapeType = "rectangle" /\ n >= 2 THEN Built("rectangle")
        ELSE IF s1.shapeType = "circle" /\ n >= 2 THEN Built("circle")
        ELSE s1

\* nodes.indexOf(node), 0-based, -1 when absent.
indexOf(seq, id) ==
    IF id \in NodeIds(seq) THEN (CHOOSE i \in 1..Len(seq) : seq[i].id = id) - 1 ELSE -1

\* A removal that moves the last node into the place of the removed one.
spliceOutSwap(seq, idx) ==
    LET k == IF idx < 0 THEN Len(seq) + idx + 1 ELSE idx + 1
    IN  IF k < 1 \/ k > Len(seq) THEN seq
        ELSE IF k = Len(seq) THEN SubSeq(seq, 1, k - 1)
        ELSE SubSeq(seq, 1, k - 1) \o <<seq[Len(seq)]>> \o SubSeq(seq, k + 1, Len(seq) - 1)

\* nodes.splice(idx, 1) with a 0-based idx; a negative idx counts from the end.
spliceOut(seq, idx) ==
    LET k == IF idx < 0 THEN Len(seq) + idx + 1 ELSE idx + 1
    IN  IF k < 1 \/ k > Len(seq) THEN seq
        ELSE SubSeq(seq, 1, k - 1) \o SubSeq(seq, k + 1, Len(seq))

\* nodes.splice(idx, 0, node) with a 0-based idx; a negative idx counts from the end.
spliceIn(seq, idx, node) ==
    LET k == IF idx < 0 THEN (IF Len(seq) + idx < 0 THEN 0 ELSE Len(seq) + idx)
             ELSE (IF idx > Len(seq) THEN Len(seq) ELSE idx)
    IN  SubSeq(seq, 1, k) \o <<node>> \o SubSeq(seq, k + 1, Len(seq))

\* A minNodes of 2 for every shape type, the polygon included.
minNodesTwo(type) == 2

\* The minNodes of the contextmenu handler.
minNodes(type) == IF type = "polygon" THEN 3 ELSE 2

\* A contextmenu handler whose removal leaves the node's white background on the
\* map.
onContextMenuKeepsBackground(s, id) ==
    IF Len(s.nodes) = minNodes(s.shapeType) THEN clear(s)
    ELSE IF Len(s.nodes) > minNodes(s.shapeType)
    THEN LET idx == indexOf(s.nodes, id)
             s1 == [s EXCEPT !.nodes = spliceOut(@, idx)]
             s2 == removeLayer(s1, NodeLayer(id))
             s3 == _updateShape(s2)
         IN  fire(s3, Event("noderemove", id, ""))
    ELSE s

\* The contextmenu handler of node id.
onContextMenu(s, id) ==
    IF Len(s.nodes) = minNodes(s.shapeType) THEN clear(s)
    ELSE IF Len(s.nodes) > minNodes(s.shapeType)
    THEN LET idx == indexOf(s.nodes, id)
             s1 == [s EXCEPT !.nodes = spliceOut(@, idx)]
             s2 == removeLayer(s1, NodeLayer(id))
             s3 == removeLayer(s2, Background(id))
             s4 == _updateShape(s3)
         IN  fire(s4, Event("noderemove", id, ""))
    ELSE s

\* onMouseDown of node id.
onMouseDown(s, id) ==
    LET s1 == [s EXCEPT !.mapDragging = FALSE,
                        !.mapListeners = @ \cup {id},
                        !.isDragging = @ \cup {id}]
    IN  fire(s1, Event("nodedragstart", id, ""))

\* node.setLatLng(newPos) for node id, wherever it is in the registry.
setLatLng(seq, id, newPos) ==
    [i \in 1..Len(seq) |-> IF seq[i].id = id THEN [seq[i] EXCEPT !.latlng = newPos] ELSE seq[i]]

\* onMouseMove of node id.
onMouseMove(s, id, containerPoint) ==
    IF id \notin s.isDragging THEN s
    ELSE LET newPos == containerPointToLatLng(containerPoint)
         IN  _updateShape([s EXCEPT !.nodes = setLatLng(@, id, newPos)])

\* An onMouseUp that leaves its gesture's listeners on the map.
onMouseUpKeepsListeners(s, id) ==
    LET s1 == [s EXCEPT !.mapDragging = TRUE,
                        !.isDragging = @ \ {id}]
    IN  fire(s1, Event("nodedragend", id, ""))

\* onMouseUp of node id.
onMouseUp(s, id) ==
    LET s1 == [s EXCEPT !.mapDragging = TRUE,
                        !.mapListeners = @ \ {id},
                        !.isDragging = @ \ {id}]
    IN  fire(s1, Event("nodedragend", id, ""))

---------------------------------------------------------------------------
(* Map clicks and pointer moves. *)

\* The container points of the registry's nodes, in order.
NodePoints(s) == [i \in 1..Len(s.nodes) |-> latLngToContainerPoint(s.nodes[i].latlng)]

\* The first loop of _onMapClick: canAdd after every node is measured.
canAdd(s, clickPoint) ==
    \A i \in 1..Len(s.nodes) :
        ~DistAtMost(distanceTo(clickPoint, NodePoints(s)[i]), nodeRadius * 2)

\* The second loop of _onMapClick from its 0-based index i on: minDist, insertIdx.
RECURSIVE NearestSegment(_, _, _, _)
NearestSegment(pts, clickPoint, i, best) ==
    IF i >= Len(pts) THEN best
    ELSE LET p1 == pts[i + 1]
             p2 == pts[((i + 1) % Len(pts)) + 1]
             dist == _pointToLineDistance(clickPoint, p1, p2)
         IN  NearestSegment(pts, clickPoint, i + 1,
                 IF DistLess(dist, best.minDist)
                 THEN [minDist |-> dist, insertIdx |-> i + 1]
                 ELSE best)

\* The condition of the idle-insertion block of _onMapClick.
IdleEditable(s) ==
    /\ ~s.isDrawing
    /\ s.shapeType \in {"polygon", "line"}
    /\ Len(s.nodes) >= (IF s.shapeType = "polygon" THEN 3 ELSE 2)

\* Whether the idle-insertion block of _onMapClick adds a node and returns.
Inserts(s, latlng) ==
    LET clickPoint == latLngToContainerPoint(latlng)
        best == NearestSegment(NodePoints(s), clickPoint, 0,
                               [minDist |-> Infinity, insertIdx |-> -1])
    IN  /\ IdleEditable(s)
        /\ canAdd(s, clickPoint)
        /\ DistAtMost(best.minDist, nodeRadius * 2)

\* The idle-insertion block of _onMapClick when it adds a node.
InsertNode(s, latlng) ==
    LET clickPoint == latLngToContainerPoint(latlng)
        best == NearestSegment(NodePoints(s), clickPoint, 0,
                               [minDist |-> Infinity, insertIdx |-> -1])
        id == NewNodeId(s)
        s1 == _createNode(s, latlng)
        s2 == [s1 EXCEPT !.nodes = spliceIn(@, best.insertIdx, [id |-> id, latlng |-> latlng])]
        s3 == _updateShape(s2)
    IN  fire(s3, Event("nodeadd", id, ""))

\* The point branch of _onMapClick.
PlacePoint(s, latlng) ==
    LET id == NewNodeId(s)
        s1 == _createNode(s, latlng)
        s2 == [s1 EXCEPT !.nodes = Append(@, [id |-> id, latlng |-> latlng]),
                         !.shape = NodeLayer(id),
                         !.isDrawing = FALSE,
                         !.state = "idle"]
        s3 == fire(s2, Event("statechange", 0, "idle"))
    IN  fire(s3, Event("nodeadd", id, ""))

\* The line branch measuring the click against the first node, not the last.
FinishesLineAtFirst(s, latlng) ==
    /\ s.shapeType = "line"
    /\ Len(s.nodes) > 1
    /\ DistAtMost(distanceTo(latLngToContainerPoint(s.nodes[1].latlng),
                             latLngToContainerPoint(latlng)), nodeRadius * 2)

\* Whether the line branch of _onMapClick finishes the line.
FinishesLine(s, latlng) ==
    /\ s.shapeType = "line"
    /\ Len(s.nodes) > 1
    /\ DistAtMost(distanceTo(latLngToContainerPoint(s.nodes[Len(s.nodes)].latlng),
                             latLngToContainerPoint(latlng)), nodeRadius * 2)

\* A completion that turns the map's drag-panning back on.
CompleteEnablesPanning(s) ==
    LET s1 == [s EXCEPT !.isDrawing = FALSE, !.state = "idle", !.mapDragging = TRUE]
        s2 == fire(s1, Event("statechange", 0, "idle"))
    IN  IF s2.tempLine # Null
        THEN [removeLayer(s2, s2.tempLine) EXCEPT !.tempLine = Null]
        ELSE s2

\* isDrawing = false, state = 'idle', the notification, the preview edge removed.
Complete(s) ==
    LET s1 == [s EXCEPT !.isDrawing = FALSE, !.state = "idle"]
        s2 == fire(s1, Event("statechange", 0, "idle"))
    IN  IF s2.tempLine # Null
        THEN [removeLayer(s2, s2.tempLine) EXCEPT !.tempLine = Null]
        ELSE s2

\* The default branch completing a polygon on its second node.
AppendNodeEarly(s, latlng) ==
    LET id == NewNodeId(s)
        s1 == _createNode(s, latlng)
        s2 == [s1 EXCEPT !.nodes = Append(@, [id |-> id, latlng |-> latlng])]
        s3 == _updateShape(s2)
        s4 == fire(s3, Event("nodeadd", id, ""))
    IN  IF /\ s4.shapeType \in {"polygon", "rectangle", "circle"}
           /\ Len(s4.nodes) >= 2
        THEN Complete(s4)
        ELSE s4

\* The default branch of _onMapClick: append a node, complete on the count.
AppendNode(s, latlng) ==
    LET id == NewNodeId(s)
        s1 == _createNode(s, latlng)
        s2 == [s1 EXCEPT !.nodes = Append(@, [id |-> id, latlng |-> latlng])]
        s3 == _updateShape(s2)
        s4 == fire(s3, Event("nodeadd", id, ""))
    IN  IF /\ s4.shapeType \in {"polygon", "rectangle", "circle"}
           /\ Len(s4.nodes) >= (IF s4.shapeType = "polygon" THEN 3 ELSE 2)
        THEN Complete(s4)
        ELSE s4

\* _onMapClick(e)
_onMapClick(s, latlng) ==
    IF Inserts(s, latlng) THEN InsertNode(s, latlng)
    ELSE IF ~s.isDrawing THEN s
    ELSE IF s.shapeType = "point" /\ s.shape = Null THEN PlacePoint(s, latlng)
    ELSE IF FinishesLine(s, latlng) THEN Complete(s)
    ELSE AppendNode(s, latlng)

\* _onMouseMove(e)
_onMouseMove(s, latlng) ==
    IF ~s.isDrawing \/ Len(s.nodes) = 0 \/ s.shapeType = "point" THEN s
    ELSE IF s.shapeType = "polygon" /\ Len(s.nodes) >= 3 THEN s
    ELSE IF s.shapeType \in {"rectangle", "circle"} /\ Len(s.nodes) >= 2 THEN s
    ELSE LET s1 == IF s.tempLine # Null THEN removeLayer(s, s.tempLine) ELSE s
             l == [kind |-> "tempLine", id |-> NewPrimitiveId(s1)]
         IN  [addTo(s1, l) EXCEPT !.tempLine = l]

\* The map's mousemove listeners beside _onMouseMove, each called in turn.
RECURSIVE DragListeners(_, _, _)
DragListeners(s, ids, containerPoint) ==
    IF ids = {} THEN s
    ELSE LET id == CHOOSE i \in ids : \A j \in ids : i <= j
         IN  DragListeners(onMouseMove(s, id, containerPoint), ids \ {id}, containerPoint)

\* The map's mouseup listeners, each called in turn.
RECURSIVE UpListeners(_, _)
UpListeners(s, ids) ==
    IF ids = {} THEN s
    ELSE LET id == CHOOSE i \in ids : \A j \in ids : i <= j
         IN  UpListeners(onMouseUp(s, id), ids \ {id})

---------------------------------------------------------------------------
(* GeoJSON. *)

\* A GeoJSON position [lng, lat] of a coordinate.
Position(latlng) == <<latlng.lng, latlng.lat>>

\* A reading of a position that takes coord[0] for the latitude.
latLngInOrder(coord) == [lat |-> coord[1], lng |-> coord[2]]

\* L.latLng(coord[1], coord[0])
latLng(coord) == [lat |-> coord[2], lng |-> coord[1]]

\* String.prototype.toLowerCase on the type names used.
toLowerCase(type) ==
    CASE type = "Point" -> "point"
      [] type = "LineString" -> "linestring"
      [] type = "Polygon" -> "polygon"
      [] type = "MultiPoint" -> "multipoint"
      [] OTHER -> type

\* array.slice(0, -1)
sliceButLast(seq) == IF Len(seq) = 0 THEN seq ELSE SubSeq(seq, 1, Len(seq) - 1)

\* The loop of drawFromGeoJSON that creates a node per coordinate.
RECURSIVE CreateNodes(_, _)
CreateNodes(s, coordinates) ==
    IF coordinates = <<>> THEN s
    ELSE LET id == NewNodeId(s)
             s1 == _createNode(s, Head(coordinates))
             s2 == [s1 EXCEPT !.nodes = Append(@, [id |-> id, latlng |-> Head(coordinates)])]
         IN  CreateNodes(s2, Tail(coordinates))

\* A rectangle's ring with the two mixed corners in each other's place.
RectangleRingSwapped(coordinates) ==
    <<coordinates[1],
      <<coordinates[1][1], coordinates[2][2]>>,
      coordinates[2],
      <<coordinates[2][1], coordinates[1][2]>>,
      coordinates[1]>>

\* The ring getGeoJSON builds from the two positions of a rectangle.
RectangleRing(coordinates) ==
    <<coordinates[1],
      <<coordinates[2][1], coordinates[1][2]>>,
      coordinates[2],
      <<coordinates[1][1], coordinates[2][2]>>,
      coordinates[1]>>

\* getGeoJSON(): what it returns or throws.  In the circle branch coordinates[0]
\* is an array, which has no distanceTo: a TypeError.  With no branch taken the
\* function ends without a return: undefined.
getGeoJSON(s) ==
    LET coordinates == [i \in 1..Len(s.nodes) |-> Position(s.nodes[i].latlng)]
        first == IF Len(coordinates) > 0 THEN coordinates[1] ELSE <<>>
        Geometry(type, coords) ==
            Returned("geometry", [type |-> type, coordinates |-> coords, radius |-> 0])
    IN  IF s.shape = Null THEN Returned("null", NoGeometry)
        ELSE IF s.shapeType = "point" THEN Geometry("Point", first)
        ELSE IF s.shapeType = "line" THEN Geometry("LineString", coordinates)
        ELSE IF s.shapeType = "polygon"
        THEN Geometry("Polygon", <<Append(coordinates, first)>>)
        ELSE IF s.shapeType = "rectangle" /\ Len(coordinates) = 2
        THEN Geometry("Polygon", <<RectangleRing(coordinates)>>)
        ELSE IF s.shapeType = "circle" /\ Len(coordinates) = 2
        THEN Returned("TypeError", NoGeometry)
        ELSE Returned("undefined", NoGeometry)

\* drawFromGeoJSON(geojson) with no options.  A Point with a radius calls
\* center.destinationPoint, which L.LatLng does not have: a TypeError.
drawFromGeoJSON(s, geojson) ==
    LET s1 == clear(s)
        s2 == [s1 EXCEPT !.shapeType = toLowerCase(geojson.type)]
        ring == geojson.coordinates[1]
    IN  IF geojson.type = "" THEN s1
        ELSE IF geojson.type = "Point"
        THEN IF geojson.radius # 0
             THEN [s2 EXCEPT !.shapeType = "circle",
                             !.result = Returned("TypeError", NoGeometry)]
             ELSE _updateShape(CreateNodes(s2, <<latLng(geojson.coordinates)>>))
        ELSE IF geojson.type = "LineString"
        THEN _updateShape(CreateNodes(s2,
                 [i \in 1..Len(geojson.coordinates) |-> latLng(geojson.coordinates[i])]))
        ELSE IF geojson.type = "Polygon"
        THEN IF Len(ring) = 5
             THEN _updateShape(CreateNodes([s2 EXCEPT !.shapeType = "rectangle"],
                      <<latLng(ring[1]), latLng(ring[3])>>))
             ELSE _updateShape(CreateNodes(s2,
                      [i \in 1..Len(sliceButLast(ring)) |-> latLng(sliceButLast(ring)[i])]))
        ELSE s2

\* The coordinate lists of the GeoJSON inputs: the first n positions of the tour
\* P, Q, R, P, Q, ...
Tour == <<PtP, PtQ, PtR>>
Run(n) == [i \in 1..n |-> Position(Tour[((i - 1) % 3) + 1])]

\* The GeoJSON inputs: null or a missing type, an unknown type, a point with and
\* without a radius, line strings of up to MaxExtra + 2 positions and rings of up to
\* MaxExtra + 4.
UnknownInputs ==
    {NoGeometry, [type |-> "MultiPoint", coordinates |-> Run(2), radius |-> 0]}
PointInputs ==
    {[type |-> "Point", coordinates |-> Position(PtP), radius |-> r] : r \in {0, 100}}
LineStringInputs ==
    {[type |-> "LineString", coordinates |-> Run(n), radius |-> 0] : n \in 0..(MaxExtra + 2)}
PolygonInputs ==
    {[type |-> "Polygon", coordinates |-> <<Run(n)>>, radius |-> 0] : n \in 1..(MaxExtra + 4)}

---------------------------------------------------------------------------
(* The specification. *)

\* initialize(map, options)
Init ==
    /\ shape = Null
    /\ nodes = <<>>
    /\ isDrawing = FALSE
    /\ shapeType = "null"
    /\ tempLine = Null
    /\ state = "idle"
    /\ layers = {}
    /\ mapDragging = TRUE
    /\ mapListeners = {}
    /\ isDragging = {}
    /\ fired = <<>>
    /\ lastOp = "initialize"
    /\ result = NoResult

\* startDrawing(type) is called.
StartDrawingOf(type) == Becomes(startDrawing(Self, type), "startDrawing")

StartDrawing == \E type \in ShapeTypes : StartDrawingOf(type)

\* clear() is called.
Clear == Becomes(clear(Self), "clear")

\* A click on the map at the coordinate p.
MapClickAt(p) ==
    \E r \in {_onMapClick(Self, p)} :
        /\ Len(r.nodes) <= Cap(r.shapeType)
        /\ Becomes(r, "click")

MapClick == \E p \in Points : MapClickAt(p)

\* A pointer move over the map to p: _onMouseMove, then the drag listeners.
MapMouseMoveTo(p) ==
    Becomes(DragListeners(_onMouseMove(Self, p), mapListeners,
                          latLngToContainerPoint(p)), "mousemove")

MapMouseMove == \E p \in Interior : MapMouseMoveTo(p)

\* The nodes whose markers are on the map, where they receive pointer events.
NodesOnMap == {l.id : l \in {k \in layers : k.kind = "node"}}

\* A press on the node id.
NodeMouseDownOn(id) ==
    /\ Cardinality(mapListeners \cup {id}) <= MaxDrags
    /\ Becomes(onMouseDown(Self, id), "mousedown")

NodeMouseDown == \E id \in NodesOnMap : NodeMouseDownOn(id)

\* A release over the map while a drag's listeners are registered.
MapMouseUp ==
    /\ mapListeners # {}
    /\ Becomes(UpListeners(Self, mapListeners), "mouseup")

\* A secondary action on the node id.
NodeContextMenuOn(id) == Becomes(onContextMenu(Self, id), "contextmenu")

NodeContextMenu == \E id \in NodesOnMap : NodeContextMenuOn(id)

\* drawFromGeoJSON(g) is called.
DrawFromGeoJSONOf(g) ==
    \E r \in {drawFromGeoJSON(Self, g)} :
        /\ Len(r.nodes) <= Cap(r.shapeType)
        /\ Becomes(r, "drawFromGeoJSON")

DrawFromGeoJSON ==
    \/ \E g \in UnknownInputs : DrawFromGeoJSONOf(g)
    \/ \E g \in PointInputs : DrawFromGeoJSONOf(g)
    \/ \E g \in LineStringInputs : DrawFromGeoJSONOf(g)
    \/ \E g \in PolygonInputs : DrawFromGeoJSONOf(g)

\* getGeoJSON() is called: the editor is left as it is.
GetGeoJSON ==
    Becomes([Self EXCEPT !.result = getGeoJSON(Self)], "getGeoJSON")

\* drawFromGeoJSON(getGeoJSON()) is called; a getGeoJSON that throws ends the call
\* before drawFromGeoJSON is entered.
DrawFromOwnGeoJSON ==
    \E r \in {getGeoJSON(Self)} :
        /\ r.kind # "TypeError"
        /\ DrawFromGeoJSONOf(r.value)

Next ==
    \/ StartDrawing
    \/ Clear
    \/ MapClick
    \/ MapMouseMove
    \/ NodeMouseDown
    \/ MapMouseUp
    \/ NodeContextMenu
    \/ DrawFromGeoJSON
    \/ GetGeoJSON
    \/ DrawFromOwnGeoJSON

Spec == Init /\ [][Next]_vars

---------------------------------------------------------------------------
(* Drawing rectangles on the corners of a square. *)

\* The four corners of the square from (lat 10, lng 10) to (lat 20, lng 20); on
\* the screen they are 12 pixels apart along the sides.
Corners == {[lat |-> lat, lng |-> lng] : lat \in {10, 20}, lng \in {10, 20}}

\* startDrawing('rectangle') is called.
StartRectangle == StartDrawingOf("rectangle")

\* A click on the map at a corner.
CornerClick == \E p \in Corners : MapClickAt(p)

\* A pointer move over the map to a corner.
CornerMouseMove == \E p \in Corners : MapMouseMoveTo(p)

NextRectangle ==
    \/ StartRectangle
    \/ Clear
    \/ CornerClick
    \/ CornerMouseMove
    \/ NodeMouseDown
    \/ MapMouseUp
    \/ NodeContextMenu
    \/ GetGeoJSON
    \/ DrawFromOwnGeoJSON

SpecRectangle == Init /\ [][NextRectangle]_vars

---------------------------------------------------------------------------
(* Drawing and editing lines around a right angle. *)

\* PtA, PtB and PtC are the corners of a right angle with legs of 48 pixels on the
\* screen.  PtD is the middle of the straight line from PtC back to PtA, 24 pixels
\* from either leg.  PtE is 12 pixels from the leg PtA-PtB, nearer than that to
\* the straight line from PtC to PtA and more than 12 pixels from every corner.
PtA == [lat |-> 0, lng |-> 0]
PtB == [lat |-> 0, lng |-> 40]
PtC == [lat |-> 40, lng |-> 40]
PtD == [lat |-> 20, lng |-> 20]
PtE == [lat |-> 10, lng |-> 15]
LinePoints == {PtA, PtB, PtC, PtD, PtE}

\* startDrawing('line') is called.
StartLine == StartDrawingOf("line")

\* A click on the map at one of the line's points.
LineClick == \E p \in LinePoints : MapClickAt(p)

\* A pointer move over the map to one of the line's points.
LineMouseMove == \E p \in LinePoints : MapMouseMoveTo(p)

NextLine ==
    \/ StartLine
    \/ Clear
    \/ LineClick
    \/ LineMouseMove
    \/ NodeMouseDown
    \/ MapMouseUp
    \/ NodeContextMenu

SpecLine == Init /\ [][NextLine]_vars

---------------------------------------------------------------------------
(* The claims. *)

\* Whether a notification of the given name is among those fired.
Fired(events, name) == \E i \in 1..Len(events) : events[i].name = name

\* How many notifications of the given name are among those fired.
FiredCount(events, name) == Cardinality({i \in 1..Len(events) : events[i].name = name})

\* The minimum node count of each shape type, as the specification gives it.
MinCount(type) ==
    CASE type = "point" -> 1
      [] type = "line" -> 2
      [] type = "rectangle" -> 2
      [] type = "circle" -> 2
      [] type = "polygon" -> 3

\* The screen distance between two coordinates is at most 2 * nodeRadius.
Within(p, q) ==
    DistAtMost(distanceTo(latLngToContainerPoint(p), latLngToContainerPoint(q)),
               2 * nodeRadius)

\* The edges of the shape as index pairs: consecutive nodes, and for a polygon the
\* closing edge from the last node to the first.
Edges ==
    {<<i, i + 1>> : i \in 1..(Len(nodes) - 1)}
    \cup (IF shapeType = "polygon" /\ Len(nodes) > 0 THEN {<<Len(nodes), 1>>} ELSE {})

\* The idle-insertion conditions of a click at p, as the specification gives them.
InsertionConditions(p) ==
    /\ state = "idle"
    /\ shapeType \in {"line", "polygon"}
    /\ Len(nodes) >= MinCount(shapeType)
    /\ \E e \in Edges :
          DistAtMost(_pointToLineDistance(latLngToContainerPoint(p),
                         latLngToContainerPoint(nodes[e[1]].latlng),
                         latLngToContainerPoint(nodes[e[2]].latlng)), 2 * nodeRadius)
    /\ \A i \in 1..Len(nodes) : ~Within(p, nodes[i].latlng)

\* C1: in the Idle state a map click that does not satisfy the idle-insertion
\* conditions changes neither the registry, the shape nor the state and fires no
\* notification.
C1_IdleClickIsNoOp ==
    [][\A p \in Points :
          (state = "idle" /\ ~InsertionConditions(p) /\ MapClickAt(p)) =>
              /\ nodes' = nodes
              /\ shape' = shape
              /\ state' = state
              /\ fired' = <<>>]_vars

\* C2: a click in the Drawing state leaves the state Drawing while the node count
\* is below the type's completion count and makes it Idle when it places the
\* completing node (point 1, rectangle and circle 2, polygon 3); a click that
\* appends a node to a line leaves the state Drawing.
C2_CompletesOnCount ==
    [][\A p \in Points :
          (state = "drawing" /\ MapClickAt(p)) =>
              IF shapeType = "line"
              THEN Len(nodes') > Len(nodes) => state' = "drawing"
              ELSE /\ Len(nodes') = Len(nodes) + 1
                   /\ Len(nodes') <= MinCount(shapeType)
                   /\ state' = (IF Len(nodes') < MinCount(shapeType)
                                THEN "drawing" ELSE "idle")]_vars

\* A click has just placed the third node of a polygon and completed it.
C2_Witness ==
    /\ lastOp = "click"
    /\ shapeType = "polygon"
    /\ Len(nodes) = 3
    /\ state = "idle"
    /\ Fired(fired, "nodeadd")
    /\ Fired(fired, "statechange")

\* C3: while Drawing a line, a click within 2 * nodeRadius pixels of the last of
\* at least 2 nodes makes the state Idle, discards the preview edge, creates no
\* node and fires no node-added notification; any other click appends a node at
\* the click and leaves the state Drawing.
C3_LineFinish ==
    [][\A p \in Points :
          (state = "drawing" /\ shapeType = "line" /\ MapClickAt(p)) =>
              IF Len(nodes) >= 2 /\ Within(nodes[Len(nodes)].latlng, p)
              THEN /\ state' = "idle"
                   /\ tempLine' = Null
                   /\ ~\E l \in layers' : l.kind = "tempLine"
                   /\ nodes' = nodes
                   /\ {l \in layers' : l.kind \in {"node", "halo"}}
                        = {l \in layers : l.kind \in {"node", "halo"}}
                   /\ ~Fired(fired', "nodeadd")
                   /\ ~Fired(fired', "beforenodecreate")
              ELSE /\ nodes' = Append(nodes, [id |-> Len(nodes) + 1, latlng |-> p])
                   /\ state' = "drawing"]_vars

\* A click has just finished a line: only the state change was fired.
C3_Witness ==
    /\ lastOp = "click"
    /\ shapeType = "line"
    /\ state = "idle"
    /\ Len(nodes) >= 2
    /\ tempLine = Null
    /\ fired = <<Event("statechange", 0, "idle")>>

\* C4: clear() and startDrawing(type) leave no node, no shape and no preview edge
\* in the editor or on the map; clear() leaves the state Idle, startDrawing(type)
\* leaves the state Drawing with the shape type set to type.
C4_ClearDiscards ==
    [][/\ (lastOp' = "clear" /\ Clear) =>
            /\ nodes' = <<>> /\ shape' = Null /\ tempLine' = Null /\ layers' = {}
            /\ state' = "idle"
       /\ \A type \in ShapeTypes :
            (lastOp' = "startDrawing" /\ StartDrawingOf(type)) =>
                /\ nodes' = <<>> /\ shape' = Null /\ tempLine' = Null /\ layers' = {}
                /\ state' = "drawing"
                /\ shapeType' = type]_vars

\* clear() or startDrawing() has just run while a node was pressed, so with nodes
\* in the registry, and has emptied the map.
C4_Witness ==
    /\ lastOp \in {"clear", "startDrawing"}
    /\ mapListeners # {}
    /\ nodes = <<>>
    /\ layers = {}

\* C5: whenever the shape type is rectangle or circle and a shape exists, the
\* registry holds exactly 2 nodes.
C5_TwoNodes ==
    (shapeType \in {"rectangle", "circle"} /\ shape # Null) => Len(nodes) = 2

\* C6: for every shape type except point a shape exists only if the node count is
\* at least the type's minimum (line 2, rectangle 2, circle 2, polygon 3); with
\* fewer nodes the shape is absent.
C6_ShapeNeedsMinimum ==
    (shapeType # "point" /\ shape # Null) =>
        /\ shapeType \in {"line", "rectangle", "circle", "polygon"}
        /\ Len(nodes) >= MinCount(shapeType)

\* A secondary action has just taken a polygon from 4 nodes to its minimum of 3,
\* and the polygon is still there.
C6_Witness ==
    /\ lastOp = "contextmenu"
    /\ Fired(fired, "noderemove")
    /\ shapeType = "polygon"
    /\ Len(nodes) = 3
    /\ shape.kind = "polygon"
    /\ shape \in layers

\* The shape primitives on the map.
PrimitivesOnMap == {l \in layers : l.kind \in PrimitiveKinds}

\* C7: at most one shape primitive is on the map, and it is the editor's shape:
\* every rebuild removes the previous primitive before it adds the replacement.
C7_OnePrimitive ==
    /\ Cardinality(PrimitivesOnMap) <= 1
    /\ PrimitivesOnMap \subseteq {shape}

\* A pointer move has just dragged a node of a shape that has a primitive, which
\* rebuilt the primitive.
C7_Witness ==
    /\ lastOp = "mousemove"
    /\ isDragging \cap NodeIds(nodes) # {}
    /\ shape.kind \in PrimitiveKinds
    /\ PrimitivesOnMap = {shape}

\* The nodes of before that are also in after, and the nodes of after that are
\* also in before, as sequences of identities.
Staying(before, after) ==
    LET Test(n) == n.id \in NodeIds(after)
        kept == SelectSeq(before, Test)
    IN  [i \in 1..Len(kept) |-> kept[i].id]

Stayed(before, after) ==
    LET Test(n) == n.id \in NodeIds(before)
        kept == SelectSeq(after, Test)
    IN  [i \in 1..Len(kept) |-> kept[i].id]

\* The nodes in both registries are in the same relative order in both.
SameOrder(before, after) == Staying(before, after) = Stayed(before, after)

\* The coordinates of a registry's nodes, in order.
LatLngs(seq) == [i \in 1..Len(seq) |-> seq[i].latlng]

\* C8: in every reachable state a click (append or idle-insertion), a secondary
\* action on a node and a pointer move (drag) leave the nodes that are in the
\* registry before and after in the same relative order.
C8_OrderPreserved ==
    /\ \A p \in Points : SameOrder(nodes, _onMapClick(Self, p).nodes)
    /\ \A id \in NodesOnMap : SameOrder(nodes, onContextMenu(Self, id).nodes)
    /\ \A p \in Interior :
          SameOrder(nodes, DragListeners(_onMouseMove(Self, p), mapListeners,
                                         latLngToContainerPoint(p)).nodes)

\* A secondary action has just removed a node of a line that had 3 or more, so
\* that 2 or more stayed.
C8_Witness ==
    /\ lastOp = "contextmenu"
    /\ Fired(fired, "noderemove")
    /\ shapeType = "line"
    /\ Len(nodes) >= 2

\* C9: a secondary action on a node when the node count equals the type's minimum
\* (point 1, line 2, rectangle 2, circle 2, polygon 3) removes the shape and all
\* nodes as clear() does; above the minimum it removes exactly that node and its
\* halo, keeps the others in order, rebuilds the shape and fires exactly one
\* node-removed notification.
C9_SecondaryAction ==
    [][\A id \in NodesOnMap :
          (shapeType \in ShapeTypes /\ id \in NodeIds(nodes) /\ NodeContextMenuOn(id)) =>
              IF Len(nodes) = MinCount(shapeType)
              THEN /\ nodes' = <<>>
                   /\ shape' = Null
                   /\ layers' = {}
                   /\ state' = "idle"
              ELSE IF Len(nodes) > MinCount(shapeType)
              THEN /\ LatLngs(nodes') = LatLngs(spliceOut(nodes, indexOf(nodes, id)))
                   /\ Cardinality({l \in layers' : l.kind = "node"}) = Len(nodes) - 1
                   /\ Cardinality({l \in layers' : l.kind = "halo"}) = Len(nodes) - 1
                   /\ FiredCount(fired', "noderemove") = 1
                   /\ shape' # Null
              ELSE TRUE]_vars

\* C10: with a completed line or polygon in the Idle state a map click adds a node
\* if and only if it is within 2 * nodeRadius pixels of the nearest edge and more
\* than 2 * nodeRadius pixels from every node; otherwise no node is added.
C10_InsertsIff ==
    [][\A p \in Points :
          (/\ state = "idle"
           /\ shapeType \in {"line", "polygon"}
           /\ shape # Null
           /\ Len(nodes) >= MinCount(shapeType)
           /\ MapClickAt(p)) =>
              IF InsertionConditions(p)
              THEN Len(nodes') = Len(nodes) + 1
              ELSE nodes' = nodes]_vars

\* What drawFromGeoJSON(getGeoJSON()) leaves behind when getGeoJSON returns.
RoundTrip == drawFromGeoJSON(Self, getGeoJSON(Self).value)

\* C11: for every completed polygon with n >= 3 nodes (drawing has ended: the
\* state is Idle and isDrawing is false), drawFromGeoJSON(getGeoJSON()) yields
\* shape type polygon and the same n node coordinates in the same order.
C11_PolygonRoundTrip ==
    (/\ state = "idle" /\ ~isDrawing
     /\ shapeType = "polygon" /\ shape # Null /\ Len(nodes) >= 3) =>
        /\ getGeoJSON(Self).kind = "geometry"
        /\ RoundTrip.shapeType = "polygon"
        /\ LatLngs(RoundTrip.nodes) = LatLngs(nodes)

\* C12: for every finished line with n >= 2 nodes (drawing has ended: the state
\* is Idle and isDrawing is false), drawFromGeoJSON(getGeoJSON()) yields shape
\* type line, the same n node coordinates in the same order and a rebuilt shape,
\* so that a following getGeoJSON() returns the same LineString.
C12_LineRoundTrip ==
    (/\ state = "idle" /\ ~isDrawing
     /\ shapeType = "line" /\ shape # Null /\ Len(nodes) >= 2) =>
        /\ getGeoJSON(Self).kind = "geometry"
        /\ RoundTrip.shapeType = "line"
        /\ LatLngs(RoundTrip.nodes) = LatLngs(nodes)
        /\ RoundTrip.shape # Null
        /\ getGeoJSON(RoundTrip) = getGeoJSON(Self)

\* C13: for every completed rectangle (2 nodes) and every completed point (1
\* node), drawFromGeoJSON(getGeoJSON()) yields the same shape type and the same
\* node coordinates in the same order, with a shape present.
C13_RectanglePointRoundTrip ==
    (/\ state = "idle"
     /\ shape # Null
     /\ \/ shapeType = "rectangle" /\ Len(nodes) = 2
        \/ shapeType = "point" /\ Len(nodes) = 1) =>
        /\ getGeoJSON(Self).kind = "geometry"
        /\ RoundTrip.shapeType = shapeType
        /\ LatLngs(RoundTrip.nodes) = LatLngs(nodes)
        /\ RoundTrip.shape # Null
        /\ RoundTrip.shape \in RoundTrip.layers

\* drawFromGeoJSON has just rebuilt a rectangle from the corners Q and P, which
\* only the rectangle's own export gives it.
C13_Witness ==
    /\ lastOp = "drawFromGeoJSON"
    /\ shapeType = "rectangle"
    /\ LatLngs(nodes) = <<PtQ, PtP>>
    /\ shape.kind = "rectangle"
    /\ shape \in layers

\* C14: getGeoJSON() returns null when no shape exists and otherwise a geometry
\* with a type; it never throws and never returns undefined while a shape exists.
C14_ExportNeverFails ==
    IF shape = Null
    THEN getGeoJSON(Self).kind = "null"
    ELSE getGeoJSON(Self).kind = "geometry" /\ getGeoJSON(Self).value.type # ""

\* The great-circle distance in meters between two coordinates, as a term.
GreatCircle(a, b) == [metersFrom |-> a, to |-> b]

\* C15: after startDrawing('circle') and two clicks the state is Idle and
\* getGeoJSON() returns the Point of node 0 with the radius the great-circle
\* distance between node 0 and node 1.
C15_CircleExport ==
    (/\ shapeType = "circle"
     /\ lastOp = "click"
     /\ Len(nodes) = 2
     /\ Fired(fired, "statechange")) =>
        /\ state = "idle"
        /\ getGeoJSON(Self).kind = "geometry"
        /\ getGeoJSON(Self).value.type = "Point"
        /\ getGeoJSON(Self).value.coordinates = Position(nodes[1].latlng)
        /\ getGeoJSON(Self).value.radius = GreatCircle(nodes[1].latlng, nodes[2].latlng)

\* A rectangle has just been completed by a click, with its first node at
\* (lat 10, lng 10) and its second at (lat 20, lng 20).
SquareDrawn ==
    /\ shapeType = "rectangle"
    /\ lastOp = "click"
    /\ Fired(fired, "statechange")
    /\ LatLngs(nodes) = <<[lat |-> 10, lng |-> 10], [lat |-> 20, lng |-> 20]>>

\* A Polygon geometry of the single ring given.
PolygonOf(ring) ==
    Returned("geometry", [type |-> "Polygon", coordinates |-> <<ring>>, radius |-> 0])

\* C16 as stated: after startDrawing('rectangle') and clicks at (lat 10, lng 10)
\* and (lat 20, lng 20) the state is Idle and getGeoJSON() returns a Polygon whose
\* ring is, in [lng, lat], (10,10), (10,20), (20,20), (20,10), (10,10).
C16_RingAsStated ==
    SquareDrawn =>
        /\ state = "idle"
        /\ getGeoJSON(Self) =
               PolygonOf(<< <<10, 10>>, <<10, 20>>, <<20, 20>>, <<20, 10>>, <<10, 10>> >>)

\* C16 amended: after startDrawing('rectangle') and clicks at (lat 10, lng 10) and
\* (lat 20, lng 20) the state is Idle and getGeoJSON() returns a Polygon whose
\* single ring has 5 positions, closed, positions 0 and 2 the clicked corners and
\* positions 1 and 3 the mixed corners: in [lng, lat], (10,10), (20,10), (20,20),
\* (10,20), (10,10).
C16_RectangleRing ==
    SquareDrawn =>
        /\ state = "idle"
        /\ getGeoJSON(Self) =
               PolygonOf(<< <<10, 10>>, <<20, 10>>, <<20, 20>>, <<10, 20>>, <<10, 10>> >>)

\* getGeoJSON() has just been called on the rectangle drawn from (lat 10, lng 10)
\* to (lat 20, lng 20) and has returned a ring of 5 positions.
C16_Witness ==
    /\ lastOp = "getGeoJSON"
    /\ shapeType = "rectangle"
    /\ state = "idle"
    /\ LatLngs(nodes) = <<[lat |-> 10, lng |-> 10], [lat |-> 20, lng |-> 20]>>
    /\ result.kind = "geometry"
    /\ Len(result.value.coordinates[1]) = 5

\* C17: drawFromGeoJSON with a missing geometry, a missing type or a type other
\* than Point, LineString and Polygon surfaces no error and leaves the editor as
\* clear() leaves it: no nodes, no shape, no preview edge, the state Idle, no node
\* created, and nothing else changed.
C17_UnknownImportIsClear ==
    [][\A g \in UnknownInputs :
          (lastOp' = "drawFromGeoJSON" /\ DrawFromGeoJSONOf(g)) =>
              /\ result'.kind # "TypeError"
              /\ nodes' = <<>>
              /\ shape' = Null
              /\ tempLine' = Null
              /\ layers' = {}
              /\ state' = "idle"
              /\ ~Fired(fired', "beforenodecreate")
              /\ fired' = clear(Self).fired
              /\ isDrawing' = clear(Self).isDrawing
              /\ shapeType' = clear(Self).shapeType]_vars

\* The state-change notifications among those fired, in order.
StateChanges(events) ==
    LET Test(ev) == ev.name = "statechange"
    IN  SelectSeq(events, Test)

\* C18: a state-change notification is fired when and only when the state
\* changes, once per change, carrying the new state: each one fired by a step
\* carries a state other than the one before it, the last carries the state the
\* step ends in, and a step that fires none leaves the state as it was.
C18_StateChangeIffChange ==
    [][LET changes == StateChanges(fired')
       IN  /\ \A i \in 1..Len(changes) :
                 changes[i].state # (IF i = 1 THEN state ELSE changes[i - 1].state)
           /\ IF Len(changes) = 0
              THEN state' = state
              ELSE changes[Len(changes)].state = state']_vars

\* C19: a release re-enables map panning, removes the move and release listeners
\* of every gesture in progress and fires exactly one drag-end for each (as many
\* drag-ends as gestures, no two for the same node, and nothing else); a pointer
\* move changes the coordinate of no node whose drag is not in progress.
C19_ReleaseEndsDrag ==
    [][/\ (lastOp' = "mouseup" /\ MapMouseUp) =>
              /\ mapDragging'
              /\ mapListeners' = {}
              /\ isDragging' = {}
              /\ Len(fired') = Cardinality(mapListeners)
              /\ \A i \in 1..Len(fired') : fired'[i].name = "nodedragend"
              /\ Cardinality({fired'[i].node : i \in 1..Len(fired')}) = Len(fired')
       /\ \A p \in Interior :
              (lastOp' = "mousemove" /\ MapMouseMoveTo(p)) =>
                  /\ Len(nodes') = Len(nodes)
                  /\ \A i \in 1..Len(nodes) :
                        nodes[i].id \notin isDragging => nodes'[i] = nodes[i]]_vars

\* A release has just ended the drag of a node of the registry: panning is on
\* again, no drag listener is left and the drag-end was fired.
C19_Witness ==
    /\ lastOp = "mouseup"
    /\ \E i \in 1..Len(nodes) : fired = <<Event("nodedragend", nodes[i].id, "")>>
    /\ mapDragging
    /\ mapListeners = {}
    /\ isDragging = {}

\* C20: a press on a node whose drag is already in progress has no effect: no
\* drag-start is fired and no listener is registered.
C20_SecondPressIgnored ==
    [][\A id \in NodesOnMap :
          (lastOp' = "mousedown" /\ id \in isDragging /\ NodeMouseDownOn(id)) =>
              /\ fired' = <<>>
              /\ mapListeners' = mapListeners
              /\ isDragging' = isDragging
              /\ mapDragging' = mapDragging]_vars

\* C21: clear() or startDrawing() called while a drag gesture is in flight leaves
\* no move or release listener of the gesture registered on the map, and a later
\* release fires a drag-end only for nodes of the registry.
C21_NoDanglingListeners ==
    [][/\ (/\ lastOp' \in {"clear", "startDrawing"}
           /\ mapListeners # {}
           /\ (Clear \/ StartDrawing)) => mapListeners' = {}
       /\ (lastOp' = "mouseup" /\ MapMouseUp) =>
              \A i \in 1..Len(fired') : fired'[i].node \in NodeIds(nodes')]_vars

\* C22: whenever the shape type is point and a shape exists, the registry holds
\* exactly one node and the shape is that node; a click that places the point
\* leaves the state Idle and has fired exactly one node-added notification.
C22_PointIsItsNode ==
    /\ (shapeType = "point" /\ shape # Null) =>
           /\ Len(nodes) = 1
           /\ shape = NodeLayer(nodes[1].id)
    /\ \A p \in Points :
           (shapeType = "point" /\ state = "drawing" /\ nodes = <<>>) =>
               /\ _onMapClick(Self, p).state = "idle"
               /\ FiredCount(_onMapClick(Self, p).fired, "nodeadd") = 1
               /\ Len(_onMapClick(Self, p).nodes) = 1
               /\ _onMapClick(Self, p).shape = NodeLayer(_onMapClick(Self, p).nodes[1].id)

\* The conditions under which a pointer move draws the preview edge, as the
\* specification gives them.
PreviewConditions ==
    /\ state = "drawing"
    /\ Len(nodes) >= 1
    /\ shapeType # "point"
    /\ shapeType = "polygon" => Len(nodes) < 3
    /\ shapeType \in {"rectangle", "circle"} => Len(nodes) < 2

\* C23: a pointer move creates or replaces the preview edge only when the state
\* is Drawing, at least one node is placed, the type is not point and the node
\* count is below the preview cap (polygon 3, rectangle and circle 2), and is a
\* no-op otherwise; in the Idle state no preview edge exists.
C23_PreviewOnlyWhileDrawing ==
    /\ state = "idle" =>
           /\ tempLine = Null
           /\ ~\E l \in layers : l.kind = "tempLine"
    /\ \A p \in Interior :
           IF PreviewConditions
           THEN /\ _onMouseMove(Self, p).tempLine # Null
                /\ _onMouseMove(Self, p).tempLine \in _onMouseMove(Self, p).layers
           ELSE _onMouseMove(Self, p) = Self

\* The squared screen distance from the coordinate p to the edge e of the shape.
EdgeDistance(p, e) ==
    _pointToLineDistance(latLngToContainerPoint(p),
                         latLngToContainerPoint(nodes[e[1]].latlng),
                         latLngToContainerPoint(nodes[e[2]].latlng))

\* C24: for a completed line in the Idle state (drawing has ended) a click that
\* is farther than 2 * nodeRadius pixels from every segment between consecutive
\* nodes inserts no node, also when it is within 2 * nodeRadius pixels of the
\* straight line from the last node back to the first: a line has no wrap-around
\* segment.
C24_LineHasNoClosingSegment ==
    (/\ state = "idle" /\ ~isDrawing
     /\ shapeType = "line" /\ shape # Null /\ Len(nodes) >= 2) =>
        \A p \in LinePoints :
            (\A i \in 1..(Len(nodes) - 1) :
                ~DistAtMost(EdgeDistance(p, <<i, i + 1>>), 2 * nodeRadius)) =>
                    _onMapClick(Self, p).nodes = nodes

\* The edges of the shape at the minimum distance from the coordinate p.
NearestEdges(p) ==
    {e \in Edges : \A f \in Edges : ~DistLess(EdgeDistance(p, f), EdgeDistance(p, e))}

\* C25: when idle-insertion fires, the new node is placed in the registry
\* immediately after the first endpoint of an edge at the minimum distance from
\* the click (for a polygon's closing edge: after the last node), the shape is
\* rebuilt, exactly one node-added notification is fired, the node count grows by
\* exactly one and the state stays Idle.
C25_InsertsAfterNearest ==
    \A p \in LinePoints \cup Points :
        (~isDrawing /\ InsertionConditions(p)) =>
            LET r == _onMapClick(Self, p)
            IN  /\ \E e \in NearestEdges(p) :
                      LatLngs(r.nodes) =
                          LatLngs(SubSeq(nodes, 1, e[1])) \o <<p>>
                              \o LatLngs(SubSeq(nodes, e[1] + 1, Len(nodes)))
                /\ Len(r.nodes) = Len(nodes) + 1
                /\ FiredCount(r.fired, "nodeadd") = 1
                /\ r.shape.kind \in PrimitiveKinds
                /\ r.shape \in r.layers
                /\ r.state = "idle"

\* C26: the two encodings of the editor state agree: the state field is
\* 'drawing' exactly when the isDrawing flag is true and 'idle' exactly when it
\* is false.
C26_EncodingsAgree ==
    /\ state \in {"idle", "drawing"}
    /\ (state = "drawing") <=> isDrawing

\* C27: whenever the state is Drawing the map's drag-panning is disabled, also
\* after a node placed during the drawing session has been pressed and released.
C27_NoPanningWhileDrawing ==
    state = "drawing" => ~mapDragging

\* C28: the node visuals on the map are exactly those of the registry's nodes,
\* each with its halo: no marker or halo of a node that left the registry is on
\* the map, and the marker and the halo of every registry node are.
C28_VisualsAreRegistry ==
    /\ Cardinality(NodeIds(nodes)) = Len(nodes)
    /\ {l \in layers : l.kind = "node"} = {NodeLayer(id) : id \in NodeIds(nodes)}
    /\ {l \in layers : l.kind = "halo"} = {Background(id) : id \in NodeIds(nodes)}

\* A secondary action has just removed a node that was pressed and not released:
\* its drag listeners are still registered, its marker and halo are gone and
\* those of the nodes that stayed are on the map.
C28_Witness ==
    /\ lastOp = "contextmenu"
    /\ Fired(fired, "noderemove")
    /\ mapListeners \ NodeIds(nodes) # {}
    /\ Len(nodes) >= 2
    /\ Cardinality({l \in layers : l.kind = "node"}) = Len(nodes)
    /\ Cardinality({l \in layers : l.kind = "halo"}) = Len(nodes)

\* C29: the map's drag-panning toggle is changed only by startDrawing, which
\* disables it, a press on a node, which disables it, and a release, which
\* enables it: shape completion, line finish, clear(), drawFromGeoJSON(),
\* getGeoJSON(), idle-insertion, secondary actions and pointer moves leave it as
\* it is, so that panning disabled by startDrawing stays disabled after the shape
\* completes until a node is released.
C29_PanningToggle ==
    [][/\ mapDragging' # mapDragging => lastOp' \in {"startDrawing", "mousedown", "mouseup"}
       /\ lastOp' \in {"startDrawing", "mousedown"} => ~mapDragging'
       /\ lastOp' = "mouseup" => mapDragging'
       /\ lastOp' \in {"click", "clear", "drawFromGeoJSON", "getGeoJSON",
                       "contextmenu", "mousemove"} => mapDragging' = mapDragging]_vars

\* A click has just completed a shape in a session started by startDrawing, and
\* panning is still disabled.
C29_Witness ==
    /\ lastOp = "click"
    /\ Fired(fired, "statechange")
    /\ state = "idle"
    /\ shape.kind \in PrimitiveKinds
    /\ mapListeners = {}
    /\ ~mapDragging

===========================================================================
